---- MODULE Spec2Model ----
(***************************************************************************)
(* A model of manager/printermanager.go (cups-connector): the              *)
(* PrinterManager that synchronises CUPS printers with Google Cloud Print  *)
(* and runs one processJob goroutine per print job.                        *)
(*                                                                         *)
(* Two groups of actions share the manager's state:                        *)
(*   - the job side: listenGCPJobs (producer and consumer), processJob,    *)
(*     incrementJobsProcessed;                                             *)
(*   - the printer side: Quit, syncPrintersPeriodically, syncPrinters,     *)
(*     applyDiff.                                                          *)
(* The packages cups, gcp and lib are not part of the modelled file; their *)
(* calls are environment steps whose outcome is chosen nondeterministically*)
(* and lib.Semaphore, lib.DiffPrinters and GCPStatus are modelled from the *)
(* specification text.                                                     *)
(***************************************************************************)
EXTENDS Integers, Sequences, FiniteSets, TLC

----------------------------------------------------------------------------
(* Bounds of the model.                                                    *)

\* Jobs handed out by NextJobBatch in one run (one processJob goroutine each).
NumJobs == 2
\* Status-poll ticks of one processJob.
MaxTicks == 4
\* Length of an owner identifier in the owner specification.
MaxOwnerLen == 3
\* The configured gcpMaxConcurrentDownload.
MaxDownloads == 1
\* Diffs of a pass whose diffs are chosen freely.
MaxDiffs == 2
\* The configured cupsQueueSize.
QueueSize == 1
\* Firings of the reconciler's timer (passes after the constructor's own).
MaxPasses == 2

Proc == 1 .. NumJobs
\* The goroutines of the enclosing process that may call Quit.
Callers == {1, 2}

----------------------------------------------------------------------------
(* Values of package lib and of the two services.                          *)

JobInProgress == "IN_PROGRESS"
JobDone == "DONE"
JobError == "ERROR"

\* CUPS job states, and their projection to GCP job states.
CupsStates == {"pending", "processing", "completed", "aborted"}
\* The states of a job that CUPS has finished with.
FinalCupsStates == {"completed", "aborted"}

GCPStatus(s) ==
  CASE s = "completed" -> JobDone
    [] s = "aborted" -> JobError
    [] OTHER -> JobInProgress

\* lib.Semaphore: a counting semaphore of a fixed size.
NewSemaphore(size) == [size |-> size, count |-> 0]
CanAcquire(s) == s.count < s.size
Acquire(s) == [s EXCEPT !.count = @ + 1]
Release(s) == [s EXCEPT !.count = @ - 1]
Count(s) == s.count

\* lib.Printer; the zero value is what applyDiff sends for "no printer".
EmptySemaphore == [size |-> 0, count |-> 0]
EmptyPrinter ==
  [Name |-> "", GCPID |-> "", CapsHash |-> "", Description |-> "",
   CUPSJobSemaphore |-> EmptySemaphore]

\* lib.Job; the zero value is a fresh loop variable.
EmptyJob ==
  [GCPJobID |-> 0, GCPPrinterID |-> "", TicketURL |-> 0, FileURL |-> 0,
   OwnerID |-> << >>]
JobFields == {"GCPJobID", "GCPPrinterID", "TicketURL", "FileURL", "OwnerID"}

\* Every field of lib.Job the file reads is a string, which is stored as two
\* words (data pointer and length). A read between the two stores sees the
\* header of neither string: a value that is no job's.
Torn(field) ==
  CASE field = "GCPPrinterID" -> "r?"
    [] field = "OwnerID" -> <<"?">>
    [] OTHER -> -1

\* Owner identifiers are sequences of characters.
OwnerChars == {"a", "b", "@"}
Alice == <<"a", "@", "b">>
Bob == <<"b", "@", "a">>
OwnersUpTo(n) == UNION {[1 .. k -> OwnerChars] : k \in 0 .. n}

\* Printer ids a job may name: one the manager knows, one it does not.
JobPrinterIds == {"r7", "r99"}

\* A printer as CUPS describes it, and as GCP lists it under an id.
CupsPrinter(name, hash, description) ==
  [Name |-> name, CapsHash |-> hash, Description |-> description]
Listed(c, id) ==
  [Name |-> c.Name, GCPID |-> id, CapsHash |-> c.CapsHash,
   Description |-> c.Description]
HP == CupsPrinter("HP", "h1", "d1")
LJ == CupsPrinter("LJ", "h1", "d1")

\* What cups.GetPrinters may return: HP absent, as listed, with another
\* driver or with another description; LJ absent or present.
Snapshots ==
  {hp \cup lj :
     hp \in {{}, {HP}, {CupsPrinter("HP", "h2", "d1")},
             {CupsPrinter("HP", "h1", "d2")}},
     lj \in {{}, {LJ}}}

\* What gcp.List may return when the manager is constructed.
Listings ==
  {{}, {Listed(HP, "r7")}, {Listed(HP, "r7"), Listed(LJ, "r8")}}

\* The printer names, in the order in which the model lists them.
NameOrder == <<"HP", "LJ">>

\* strings.Index(s, "@"): the first position of the separator, 0 if none.
RECURSIVE IndexFrom(_, _)
IndexFrom(s, i) ==
  IF i > Len(s) THEN 0
  ELSE IF s[i] = "@" THEN i
  ELSE IndexFrom(s, i + 1)

\* strings.Split(s, "@"): the pieces of s between separators.
RECURSIVE Split(_)
Split(s) ==
  LET i == IndexFrom(s, 1)
  IN  IF i = 0 THEN <<s>>
      ELSE <<SubSeq(s, 1, i - 1)>> \o Split(SubSeq(s, i + 1, Len(s)))

----------------------------------------------------------------------------
VARIABLES
  \* PrinterManager fields
  gcpPrintersByGCPID,  \* the registry: GCPID -> lib.Printer
  downloadSemaphore,
  jobStatsSemaphore,
  jobsDone,
  jobsError,
  cupsQueueSize,
  jobFullUsername,
  \* listenGCPJobs
  prod,                \* the producer goroutine: pc, batch, index, field
  jobVar,              \* the loop variable `job` of each batch's range loop
  spawned,             \* number of processJob goroutines started
  \* processJob goroutines
  proc,                \* the locals of each goroutine
  \* the services, as far as the manager's calls show
  tempFiles,           \* temp files that exist on disk (by owning goroutine)
  controls,            \* per goroutine, the gcp.Control calls made
  printCalls,          \* per goroutine, the cups.Print calls made
  polled,              \* per goroutine, the GetJobStatus answers received
  handed,              \* number of jobs NextJobBatch has returned
  \* Quit, syncPrintersPeriodically, syncPrinters, applyDiff
  quit,                \* the callers of Quit
  recon,               \* the goroutine that runs syncPrinters
  applying,            \* the applyDiff goroutines of the current pass
  rps,                 \* the printer ids registered with GCP
  deleteFailed,        \* the printers whose gcp.Delete failed
  registerFailed,      \* the names of the printers whose Register failed
  \* GetJobStats
  stats                \* what the last call of GetJobStats returned

jobVars ==
  <<gcpPrintersByGCPID, downloadSemaphore, jobStatsSemaphore, jobsDone,
    jobsError, cupsQueueSize, jobFullUsername, prod, jobVar, spawned, proc,
    tempFiles, controls, printCalls, polled, handed, stats>>

syncVars == <<quit, recon, applying, rps, deleteFailed, registerFailed>>

vars == <<jobVars, syncVars>>

\* The locals of a processJob goroutine that has not been started.
NoProc ==
  [pc |-> "none", job |-> 0, printer |-> EmptyPrinter, hasFile |-> FALSE,
   err |-> FALSE, msg |-> "", ownerID |-> << >>, status |-> "",
   message |-> "", success |-> FALSE, tmp |-> 0, deferred |-> FALSE,
   ticks |-> 0, calls |-> << >>, urls |-> << >>, latest |-> <<"", "">>]

\* The registry entry of a printer: lines 52-55 and 156.
WithSemaphore(p, size) ==
  [Name |-> p.Name, GCPID |-> p.GCPID, CapsHash |-> p.CapsHash,
   Description |-> p.Description, CUPSJobSemaphore |-> NewSemaphore(size)]

\* NewPrinterManager, lines 46-66: the registry holds the printers of
\* gcp.List, each with a fresh semaphore of cupsQueueSize.
InitManager(listings, queueSizes, downloads, fullUsername) ==
  /\ cupsQueueSize \in queueSizes
  /\ \E listed \in listings :
       /\ gcpPrintersByGCPID =
            [id \in {p.GCPID : p \in listed} |->
               WithSemaphore(CHOOSE p \in listed : p.GCPID = id,
                             cupsQueueSize)]
       /\ rps = [ids |-> {p.GCPID : p \in listed},
                 issued |-> {p.GCPID : p \in listed}, calls |-> {}]
  /\ downloadSemaphore \in {NewSemaphore(n) : n \in downloads}
  /\ jobStatsSemaphore = NewSemaphore(1)
  /\ jobsDone = 0
  /\ jobsError = 0
  /\ jobFullUsername \in fullUsername

\* The words of each field the producer's copy has still to store.
Stored == [field \in JobFields |-> 0]
ToStore == [field \in JobFields |-> 2]

\* GetJobStats has not been called.
NotAsked == [called |-> FALSE]

\* listenGCPJobs has been started and no job has arrived.
InitJobs ==
  /\ prod = [pc |-> "next", batch |-> << >>, i |-> 0, f |-> Stored, ptr |-> 0,
             consumer |-> "select", afterQuit |-> FALSE]
  /\ jobVar = [b \in Proc |-> EmptyJob]
  /\ spawned = 0
  /\ handed = 0
  /\ proc = [p \in Proc |-> NoProc]
  /\ tempFiles = {}
  /\ controls = [p \in Proc |-> << >>]
  /\ printCalls = [p \in Proc |-> << >>]
  /\ polled = [p \in Proc |-> << >>]
  /\ stats = NotAsked

\* The reconciler between passes.
Idle ==
  [pc |-> "select", ctor |-> FALSE, passes |-> 0, snapshot |-> {},
   diffs |-> << >>, received |-> 0, currentPrinters |-> << >>,
   ended |-> ""]

NotCalled == [pc |-> "idle", duringPass |-> FALSE, sawOther |-> "none"]

\* Line 68: the constructor is about to run its own syncPrinters.
InitSync ==
  /\ quit = [c \in Callers |-> NotCalled]
  /\ recon = [Idle EXCEPT !.pc = "getprinters", !.ctor = TRUE]
  /\ applying = << >>
  /\ deleteFailed = [now |-> {}, prev |-> {}]
  /\ registerFailed = [now |-> {}, prev |-> {}]

\* Lines 69-72: the constructor has returned, the registry is in sync.
InitSynced ==
  /\ quit = [c \in Callers |-> NotCalled]
  /\ recon = Idle
  /\ applying = << >>
  /\ deleteFailed = [now |-> {}, prev |-> {}]
  /\ registerFailed = [now |-> {}, prev |-> {}]

\* The job side alone: the manager knows the printer HP as r7.
Init ==
  /\ InitManager({{Listed(HP, "r7")}}, {QueueSize}, {MaxDownloads}, {FALSE})
  /\ InitJobs
  /\ InitSynced

----------------------------------------------------------------------------
(* listenGCPJobs, lines 199-222.                                           *)

\* A job of GCP: its ticket and its file are at URLs of its own.
Job(id, printerID, owner) ==
  [GCPJobID |-> id, GCPPrinterID |-> printerID, TicketURL |-> id,
   FileURL |-> id, OwnerID |-> owner]

\* The batches gcp.NextJobBatch may return when n jobs have been handed out:
\* k new jobs in order, for printers and owners of the caller's choosing.
Batches(n, k, owners) ==
  {[i \in 1 .. k |-> Job(n + i, c[i][1], c[i][2])] :
     c \in [1 .. k -> JobPrinterIds \X owners]}

\* Lines 203-207: the producer calls NextJobBatch; an error is logged and the
\* (empty) batch is ranged over all the same. A range loop over a non-empty
\* batch declares one loop variable `job` for the whole loop. Whether Quit
\* had returned when the batch arrived is kept with the batch.
NextJobBatch(maxJobs, maxBatch, owners) ==
  /\ prod.pc = "next"
  /\ handed < maxJobs
  /\ \E k \in 0 .. (maxJobs - handed) :
       /\ k <= maxBatch
       /\ \E b \in Batches(handed, k, owners) :
            /\ handed' = handed + k
            /\ prod' =
                 IF k = 0 THEN prod
                 ELSE [pc |-> "copy", batch |-> b, i |-> 1, f |-> ToStore,
                       ptr |-> prod.ptr + 1, consumer |-> prod.consumer,
                       afterQuit |-> \E c \in Callers :
                                       quit[c].pc = "returned"]
  /\ UNCHANGED <<gcpPrintersByGCPID, downloadSemaphore, jobStatsSemaphore,
                 jobsDone, jobsError, cupsQueueSize, jobFullUsername, jobVar,
                 spawned, proc, tempFiles, controls, printCalls, polled,
                 stats, syncVars>>

\* Line 207: `job` is assigned the next element of the batch. The struct is
\* copied without synchronisation while earlier goroutines may be reading
\* it: its words are stored one at a time, and a reader may see the stores
\* in any order. A field is the new string once both its words are stored.
\* The first element of a batch is stored into a variable that the range
\* statement has just declared and whose address no goroutine has yet: its
\* stores have no reader and are taken as one step.
ProducerCopy ==
  /\ prod.pc = "copy"
  /\ IF prod.i = 1
     THEN /\ jobVar' = [jobVar EXCEPT ![prod.ptr] = prod.batch[prod.i]]
          /\ prod' = [prod EXCEPT !.f = Stored, !.pc = "send"]
     ELSE \E field \in JobFields :
            /\ prod.f[field] > 0
            /\ jobVar' = [jobVar EXCEPT ![prod.ptr][field] =
                 IF prod.f[field] = 1 THEN prod.batch[prod.i][field]
                 ELSE Torn(field)]
            /\ prod' = [prod EXCEPT
                 !.f[field] = @ - 1,
                 !.pc = IF [prod.f EXCEPT ![field] = @ - 1] = Stored
                        THEN "send" ELSE "copy"]
  /\ UNCHANGED <<gcpPrintersByGCPID, downloadSemaphore, jobStatsSemaphore,
                 jobsDone, jobsError, cupsQueueSize, jobFullUsername, spawned,
                 proc, tempFiles, controls, printCalls, polled, handed,
                 stats, syncVars>>

\* Lines 208 and 215-216: the producer's send of &job meets the consumer's
\* receive on the unbuffered channel, and the consumer starts processJob with
\* that pointer. The consumer's other case, line 217, needs a send on
\* gcpJobPollQuit; the file has none, so the consumer stays in its select.
Dispatch ==
  /\ prod.pc = "send"
  /\ prod.consumer = "select"
  /\ spawned' = spawned + 1
  /\ proc' = [proc EXCEPT ![spawned + 1] =
                [NoProc EXCEPT !.pc = "lookup", !.job = prod.ptr]]
  /\ prod' = IF prod.i < Len(prod.batch)
             THEN [prod EXCEPT !.pc = "copy", !.i = @ + 1, !.f = ToStore]
             ELSE [prod EXCEPT !.pc = "next", !.batch = << >>, !.i = 0]
  /\ UNCHANGED <<gcpPrintersByGCPID, downloadSemaphore, jobStatsSemaphore,
                 jobsDone, jobsError, cupsQueueSize, jobFullUsername, jobVar,
                 tempFiles, controls, printCalls, polled, handed,
                 stats, syncVars>>

----------------------------------------------------------------------------
(* processJob, lines 241-333, and incrementJobsProcessed, lines 224-233.   *)

\* The job a goroutine's pointer refers to, as it reads now.
JobOf(p) == jobVar[proc[p].job]

ControlCall(id, status, message) ==
  [job |-> id, status |-> status, message |-> message]

\* What processJob leaves alone in every step.
ManagerUnchanged ==
  UNCHANGED <<gcpPrintersByGCPID, cupsQueueSize, jobFullUsername, prod,
              jobVar, spawned, handed, stats, syncVars>>

\* A failed stage that is tried again instead of being reported.
FailedRetries(p, stage) ==
  [proc[p] EXCEPT !.msg = stage]

\* A stage failed: the message is kept for the Control call that follows.
Failed(p, stage) ==
  [proc[p] EXCEPT !.pc = "report", !.msg = stage]

\* A call of a stage to CUPS or GCP is added to the goroutine's record.
Called(r, stage) == [r EXCEPT !.calls = Append(@, stage)]

\* A URL read from the job and passed to GCP is added to the record.
Fetched(r, url) == [r EXCEPT !.urls = Append(@, url)]

\* Lines 244-245: the printer is looked up in the registry.
Lookup(p) ==
  /\ proc[p].pc = "lookup"
  /\ LET id == JobOf(p).GCPPrinterID
     IN  proc' = [proc EXCEPT ![p] =
           IF id \in DOMAIN gcpPrintersByGCPID
           THEN [proc[p] EXCEPT !.pc = "ticket",
                                !.printer = gcpPrintersByGCPID[id]]
           ELSE Failed(p, "find")]
  /\ ManagerUnchanged
  /\ UNCHANGED <<downloadSemaphore, jobStatsSemaphore, jobsDone, jobsError,
                 tempFiles, controls, printCalls, polled>>

\* Lines 253-254: gcp.Ticket is called with job.TicketURL; it succeeds or
\* fails.
Ticket(p) ==
  /\ proc[p].pc = "ticket"
  /\ \E ok \in BOOLEAN :
       proc' = [proc EXCEPT ![p] =
         Fetched(Called(IF ok THEN [proc[p] EXCEPT !.pc = "tempfile"]
                        ELSE Failed(p, "ticket"), "ticket"),
                 JobOf(p).TicketURL)]
  /\ ManagerUnchanged
  /\ UNCHANGED <<downloadSemaphore, jobStatsSemaphore, jobsDone, jobsError,
                 tempFiles, controls, printCalls, polled>>

\* Lines 262-263: cups.CreateTempFile creates a file or fails.
CreateTempFile(p) ==
  /\ proc[p].pc = "tempfile"
  /\ \E ok \in BOOLEAN :
       /\ proc' = [proc EXCEPT ![p] =
            Called(IF ok
                   THEN [proc[p] EXCEPT !.pc = "acquire", !.hasFile = TRUE]
                   ELSE Failed(p, "tempfile"), "tempfile")]
       /\ tempFiles' = IF ok THEN tempFiles \cup {p} ELSE tempFiles
  /\ ManagerUnchanged
  /\ UNCHANGED <<downloadSemaphore, jobStatsSemaphore, jobsDone, jobsError,
                 controls, printCalls, polled>>

\* An acquire that does not wait for a free slot.
DownloadAcquireNoWait(p) ==
  /\ proc[p].pc = "acquire"
  /\ downloadSemaphore' = Acquire(downloadSemaphore)
  /\ proc' = [proc EXCEPT ![p].pc = "download"]
  /\ ManagerUnchanged
  /\ UNCHANGED <<jobStatsSemaphore, jobsDone, jobsError, tempFiles, controls,
                 printCalls, polled>>

\* Line 271: pm.downloadSemaphore.Acquire() blocks while the semaphore is full.
DownloadAcquire(p) ==
  /\ proc[p].pc = "acquire"
  /\ CanAcquire(downloadSemaphore)
  /\ downloadSemaphore' = Acquire(downloadSemaphore)
  /\ proc' = [proc EXCEPT ![p].pc = "download"]
  /\ ManagerUnchanged
  /\ UNCHANGED <<jobStatsSemaphore, jobsDone, jobsError, tempFiles, controls,
                 printCalls, polled>>

\* Lines 272-274: gcp.Download is called with job.FileURL; it succeeds or
\* fails.
Download(p) ==
  /\ proc[p].pc = "download"
  /\ \E ok \in BOOLEAN :
       proc' = [proc EXCEPT ![p] =
         Fetched(Called([proc[p] EXCEPT !.pc = "release", !.err = ~ok],
                        "download"),
                 JobOf(p).FileURL)]
  /\ ManagerUnchanged
  /\ UNCHANGED <<downloadSemaphore, jobStatsSemaphore, jobsDone, jobsError,
                 tempFiles, controls, printCalls, polled>>

\* A projection with the flag read the other way round.
OwnerProjectionInverted(full, owner) ==
  IF full THEN Split(owner)[1] ELSE owner

\* Lines 288-291: the owner passed to cups.Print is the job's owner, cut at
\* the first "@" unless jobFullUsername is set.
OwnerProjection(full, owner) ==
  IF ~full THEN Split(owner)[1] ELSE owner

\* Lines 275-276: the semaphore is released; after a failed download the
\* error is reported.
DownloadRelease(p) ==
  /\ proc[p].pc = "release"
  /\ downloadSemaphore' = Release(downloadSemaphore)
  /\ proc' = [proc EXCEPT ![p] =
       IF proc[p].err THEN Failed(p, "download")
       ELSE [proc[p] EXCEPT !.pc = "owner"]]
  /\ ManagerUnchanged
  /\ UNCHANGED <<jobStatsSemaphore, jobsDone, jobsError, tempFiles, controls,
                 printCalls, polled>>

\* Lines 284-291: with the semaphore released, the file is closed, its
\* removal is deferred, and job.OwnerID is read through the pointer and
\* projected.
ReadOwner(p) ==
  /\ proc[p].pc = "owner"
  /\ proc' = [proc EXCEPT ![p] =
       [proc[p] EXCEPT
          !.pc = "print", !.deferred = TRUE,
          !.ownerID = OwnerProjection(jobFullUsername, JobOf(p).OwnerID)]]
  /\ ManagerUnchanged
  /\ UNCHANGED <<downloadSemaphore, jobStatsSemaphore, jobsDone, jobsError,
                 tempFiles, controls, printCalls, polled>>

\* Lines 293-294: cups.Print is called with the printer's name, the temp
\* file, the title "gcp:"+job id and the projected owner; it succeeds or fails.
CupsPrint(p) ==
  /\ proc[p].pc = "print"
  /\ printCalls' = [printCalls EXCEPT ![p] = Append(@,
       [printer |-> proc[p].printer.Name, file |-> p,
        title |-> JobOf(p).GCPJobID, owner |-> proc[p].ownerID])]
  /\ \E ok \in BOOLEAN :
       proc' = [proc EXCEPT ![p] =
         Called(IF ok THEN [proc[p] EXCEPT !.pc = "poll"]
                ELSE Failed(p, "print"), "print")]
  /\ ManagerUnchanged
  /\ UNCHANGED <<downloadSemaphore, jobStatsSemaphore, jobsDone, jobsError,
                 tempFiles, controls, polled>>

\* Lines 246-249, 255-258, 264-267, 277-280, 295-298, 310-313: the failure is
\* reported with gcp.Control(job id, ERROR, message) and counted as an error.
Report(p) ==
  /\ proc[p].pc = "report"
  /\ controls' = [controls EXCEPT ![p] =
       Append(@, ControlCall(JobOf(p).GCPJobID, JobError, proc[p].msg))]
  /\ proc' = [proc EXCEPT ![p].pc = "inc_acquire", ![p].success = FALSE]
  /\ ManagerUnchanged
  /\ UNCHANGED <<downloadSemaphore, jobStatsSemaphore, jobsDone, jobsError,
                 tempFiles, printCalls, polled>>

\* Lines 307-315: at a tick cups.GetJobStatus fails.
PollError(p, maxTicks) ==
  /\ proc[p].pc = "poll"
  /\ proc[p].ticks < maxTicks
  /\ polled' = [polled EXCEPT ![p] = Append(@, <<"error", "">>)]
  /\ proc' = [proc EXCEPT ![p] =
       Called([Failed(p, "getstatus") EXCEPT !.ticks = @ + 1], "getstatus")]
  /\ ManagerUnchanged
  /\ UNCHANGED <<downloadSemaphore, jobStatsSemaphore, jobsDone, jobsError,
                 tempFiles, controls, printCalls>>

\* A test that forgets the message.
ChangedStatusOnly(latestStatus, latestMessage, status, message) ==
  GCPStatus(latestStatus) # status

\* Line 317: the test that decides whether a tick's answer is reported.
Changed(latestStatus, latestMessage, status, message) ==
  GCPStatus(latestStatus) # status \/ latestMessage # message

\* A test that ends the loop on DONE alone.
LoopEndsOnDone(gcpStatus) == gcpStatus = JobDone

\* Line 324: the test that ends the poll loop.
LoopEnds(gcpStatus) == gcpStatus # JobInProgress

\* Lines 307-308: at a tick cups.GetJobStatus answers with a CUPS state and
\* a message, which the goroutine holds in latestStatus and latestMessage.
PollTick(p, maxTicks, states, messages) ==
  /\ proc[p].pc = "poll"
  /\ proc[p].ticks < maxTicks
  /\ \E latestStatus \in states, latestMessage \in messages :
       /\ polled' = [polled EXCEPT ![p] =
             Append(@, <<latestStatus, latestMessage>>)]
       /\ proc' = [proc EXCEPT ![p] =
             Called([proc[p] EXCEPT
                !.pc = "answered", !.ticks = @ + 1,
                !.latest = <<latestStatus, latestMessage>>], "getstatus")]
  /\ ManagerUnchanged
  /\ UNCHANGED <<downloadSemaphore, jobStatsSemaphore, jobsDone, jobsError,
                 tempFiles, controls, printCalls>>

\* Lines 317-331: a changed pair is kept and reported with gcp.Control, which
\* is given job.GCPJobID as it reads then; a state that is not in progress
\* ends the loop.
PollReport(p) ==
  /\ proc[p].pc = "answered"
  /\ LET latestStatus == proc[p].latest[1]
         latestMessage == proc[p].latest[2]
         changed == Changed(latestStatus, latestMessage,
                            proc[p].status, proc[p].message)
         gcpStatus == GCPStatus(latestStatus)
     IN  /\ controls' = [controls EXCEPT ![p] =
               IF changed
               THEN Append(@, ControlCall(JobOf(p).GCPJobID, gcpStatus,
                                          latestMessage))
               ELSE @]
         /\ proc' = [proc EXCEPT ![p] =
               [proc[p] EXCEPT
                  !.status = IF changed THEN gcpStatus ELSE @,
                  !.message = IF changed THEN latestMessage ELSE @,
                  !.latest = <<"", "">>,
                  !.pc = IF LoopEnds(gcpStatus)
                         THEN "inc_acquire" ELSE "poll",
                  !.success = (gcpStatus = JobDone)]]
  /\ ManagerUnchanged
  /\ UNCHANGED <<downloadSemaphore, jobStatsSemaphore, jobsDone, jobsError,
                 tempFiles, printCalls, polled>>

\* An increment that does not wait for the stats semaphore.
IncAcquireNoWait(p) ==
  /\ proc[p].pc = "inc_acquire"
  /\ jobStatsSemaphore' = Acquire(jobStatsSemaphore)
  /\ proc' = [proc EXCEPT ![p].pc = "inc_load"]
  /\ ManagerUnchanged
  /\ UNCHANGED <<downloadSemaphore, jobsDone, jobsError, tempFiles, controls,
                 printCalls, polled>>

\* Line 225: pm.jobStatsSemaphore.Acquire().
IncAcquire(p) ==
  /\ proc[p].pc = "inc_acquire"
  /\ CanAcquire(jobStatsSemaphore)
  /\ jobStatsSemaphore' = Acquire(jobStatsSemaphore)
  /\ proc' = [proc EXCEPT ![p].pc = "inc_load"]
  /\ ManagerUnchanged
  /\ UNCHANGED <<downloadSemaphore, jobsDone, jobsError, tempFiles, controls,
                 printCalls, polled>>

\* Lines 228-231, first half of `+= 1`: the counter is read.
IncLoad(p) ==
  /\ proc[p].pc = "inc_load"
  /\ proc' = [proc EXCEPT ![p].pc = "inc_store",
                          ![p].tmp = IF proc[p].success THEN jobsDone
                                     ELSE jobsError]
  /\ ManagerUnchanged
  /\ UNCHANGED <<downloadSemaphore, jobStatsSemaphore, jobsDone, jobsError,
                 tempFiles, controls, printCalls, polled>>

\* Lines 228-231, second half of `+= 1`: the counter is written.
IncStore(p) ==
  /\ proc[p].pc = "inc_store"
  /\ jobsDone' = IF proc[p].success THEN proc[p].tmp + 1 ELSE jobsDone
  /\ jobsError' = IF proc[p].success THEN jobsError ELSE proc[p].tmp + 1
  /\ proc' = [proc EXCEPT ![p].pc = "inc_release", ![p].tmp = 0]
  /\ ManagerUnchanged
  /\ UNCHANGED <<downloadSemaphore, jobStatsSemaphore, tempFiles, controls,
                 printCalls, polled>>

\* Line 226: the deferred pm.jobStatsSemaphore.Release().
IncRelease(p) ==
  /\ proc[p].pc = "inc_release"
  /\ jobStatsSemaphore' = Release(jobStatsSemaphore)
  /\ proc' = [proc EXCEPT ![p].pc = "return"]
  /\ ManagerUnchanged
  /\ UNCHANGED <<downloadSemaphore, jobsDone, jobsError, tempFiles, controls,
                 printCalls, polled>>

\* Lines 250, 259, 268, 281, 299, 314, 330: processJob returns; the deferred
\* os.Remove of line 286 runs if it was registered.
Return(p) ==
  /\ proc[p].pc = "return"
  /\ tempFiles' = IF proc[p].deferred THEN tempFiles \ {p} ELSE tempFiles
  /\ proc' = [proc EXCEPT ![p].pc = "done"]
  /\ ManagerUnchanged
  /\ UNCHANGED <<downloadSemaphore, jobStatsSemaphore, jobsDone, jobsError,
                 controls, printCalls, polled>>

\* The messages cups.GetJobStatus gives with a state.
AllMessages == {"", "q", "printing"}

\* Lines 338-340: the sum of the Count() of the semaphores of the printers
\* with the given ids.
RECURSIVE SumOfCounts(_, _)
SumOfCounts(m, ids) ==
  IF ids = {} THEN 0
  ELSE LET id == CHOOSE x \in ids : TRUE
       IN  Count(m[id].CUPSJobSemaphore) + SumOfCounts(m, ids \ {id})

\* The goroutines whose job cups.Print has accepted and whose poll loop has
\* not ended.
Submitted == {p \in Proc : proc[p].pc \in {"poll", "answered"}}

\* A result that reports the sum of the two counters as processed.
GetJobStatsFromCounters(m, done, error) ==
  [processed |-> done + error, processing |-> SumOfCounts(m, DOMAIN m),
   err |-> "nil"]

\* GetJobStats, lines 335-343, as a function of the manager's fields:
\* processed is declared and never assigned, processing is the sum over the
\* registry, the error is nil.
GetJobStatsResult(m, done, error) ==
  [processed |-> 0, processing |-> SumOfCounts(m, DOMAIN m), err |-> "nil"]

\* Lines 335-343: a goroutine of the enclosing process calls GetJobStats.
\* The call's result is kept, with what the manager's counters and the
\* submitted jobs were at that instant.
GetJobStats ==
  /\ stats' = [called |-> TRUE,
               result |-> GetJobStatsResult(gcpPrintersByGCPID, jobsDone,
                                            jobsError),
               jobsDone |-> jobsDone, jobsError |-> jobsError,
               submitted |-> Submitted]
  /\ UNCHANGED <<gcpPrintersByGCPID, downloadSemaphore, jobStatsSemaphore,
                 jobsDone, jobsError, cupsQueueSize, jobFullUsername, prod,
                 jobVar, spawned, proc, tempFiles, controls, printCalls,
                 polled, handed, syncVars>>

JobsNext(maxJobs, maxBatch, owners, maxTicks, states, messages) ==
  \/ NextJobBatch(maxJobs, maxBatch, owners)
  \/ ProducerCopy
  \/ Dispatch
  \/ \E p \in Proc :
       \/ Lookup(p)
       \/ Ticket(p)
       \/ CreateTempFile(p)
       \/ DownloadAcquire(p)
       \/ Download(p)
       \/ DownloadRelease(p)
       \/ ReadOwner(p)
       \/ CupsPrint(p)
       \/ Report(p)
       \/ PollError(p, maxTicks)
       \/ PollTick(p, maxTicks, states, messages)
       \/ PollReport(p)
       \/ IncAcquire(p)
       \/ IncLoad(p)
       \/ IncStore(p)
       \/ IncRelease(p)
       \/ Return(p)

\* Several jobs at once, each arriving in a batch of its own and finished by
\* CUPS at its first status query.
Next == JobsNext(NumJobs, 1, {Alice}, MaxTicks, FinalCupsStates, {""})

Spec == Init /\ [][Next]_vars

\* Several jobs arriving in batches of any size, for either of two owners.
NextBatch ==
  JobsNext(NumJobs, NumJobs, {Alice, Bob}, MaxTicks, FinalCupsStates, {""})

SpecBatch == Init /\ [][NextBatch]_vars

\* One job, polled for up to MaxTicks ticks with any CUPS state and message.
\* GetJobStats may be called at any moment.
NextPoll ==
  \/ JobsNext(1, 1, {Alice}, MaxTicks, CupsStates, AllMessages)
  \/ GetJobStats

SpecPoll == Init /\ [][NextPoll]_vars

\* One job of any owner, under either setting of jobFullUsername.
InitOwner ==
  /\ InitManager({{Listed(HP, "r7")}}, {QueueSize}, {MaxDownloads}, BOOLEAN)
  /\ InitJobs
  /\ InitSynced

NextOwner ==
  JobsNext(1, 1, OwnersUpTo(MaxOwnerLen), MaxTicks, FinalCupsStates, {""})

SpecOwner == InitOwner /\ [][NextOwner]_vars

----------------------------------------------------------------------------
(* Quit, lines 75-78, and syncPrintersPeriodically, lines 80-91.           *)

\* What the printer side leaves alone in every step.
JobsUnchanged ==
  UNCHANGED <<downloadSemaphore, jobStatsSemaphore, jobsDone, jobsError,
              cupsQueueSize, jobFullUsername, prod, jobVar, spawned, proc,
              tempFiles, controls, printCalls, polled, handed, stats>>

InPass == recon.pc \in {"getprinters", "diff", "diffed", "collect", "finished"}

\* What a caller of Quit finds the other callers doing.
OtherCallers(c) ==
  IF \E d \in Callers \ {c} : quit[d].pc = "returned" THEN "returned"
  ELSE IF \E d \in Callers \ {c} : quit[d].pc \in {"send", "recv"}
       THEN "calling"
       ELSE "none"

\* Line 75: a goroutine of the enclosing process calls Quit on the manager
\* the constructor returned; it blocks in the send of line 76. Whether a
\* pass was running and what the other callers were doing is kept.
QuitCall(c) ==
  /\ quit[c].pc = "idle"
  /\ ~recon.ctor
  /\ quit' = [quit EXCEPT ![c] = [pc |-> "send", duringPass |-> InPass,
                                  sawOther |-> OtherCallers(c)]]
  /\ UNCHANGED <<gcpPrintersByGCPID, recon, applying, rps, deleteFailed,
                 registerFailed>>
  /\ JobsUnchanged

\* Line 76 meets line 86: the loop, waiting in its select, receives the stop
\* signal from the unbuffered channel printerPollQuit.
StopReceived(c) ==
  /\ quit[c].pc = "send"
  /\ recon.pc = "select"
  /\ quit' = [quit EXCEPT ![c].pc = "recv"]
  /\ recon' = [recon EXCEPT !.pc = "ack"]
  /\ UNCHANGED <<gcpPrintersByGCPID, applying, rps, deleteFailed,
                 registerFailed>>
  /\ JobsUnchanged

\* Line 76 of one caller meets line 77 of another: on the one unbuffered
\* channel the send of a caller that has not been heard is received by a
\* caller that waits for the loop's acknowledgement.
QuitCrossed(c, d) ==
  /\ c # d
  /\ quit[c].pc = "send"
  /\ quit[d].pc = "recv"
  /\ quit' = [quit EXCEPT ![c].pc = "recv", ![d].pc = "returned"]
  /\ UNCHANGED <<gcpPrintersByGCPID, recon, applying, rps, deleteFailed,
                 registerFailed>>
  /\ JobsUnchanged

\* A loop that acknowledges the stop signal and goes on selecting.
StopAcknowledgedNoReturn(c) ==
  /\ recon.pc = "ack"
  /\ quit[c].pc = "recv"
  /\ quit' = [quit EXCEPT ![c].pc = "returned"]
  /\ recon' = [recon EXCEPT !.pc = "select"]
  /\ UNCHANGED <<gcpPrintersByGCPID, applying, rps, deleteFailed,
                 registerFailed>>
  /\ JobsUnchanged

\* A loop that returns on the stop signal without acknowledging it.
StopAcknowledgedNoEcho(c) ==
  /\ recon.pc = "ack"
  /\ quit[c].pc = "recv"
  /\ recon' = [recon EXCEPT !.pc = "exited"]
  /\ UNCHANGED <<gcpPrintersByGCPID, quit, applying, rps, deleteFailed,
                 registerFailed>>
  /\ JobsUnchanged

\* A stop that ends the consumer of listenGCPJobs with the reconciler.
StopAcknowledgedStopsIntake(c) ==
  /\ recon.pc = "ack"
  /\ quit[c].pc = "recv"
  /\ quit' = [quit EXCEPT ![c].pc = "returned"]
  /\ recon' = [recon EXCEPT !.pc = "exited"]
  /\ prod' = [prod EXCEPT !.consumer = "exited"]
  /\ UNCHANGED <<gcpPrintersByGCPID, applying, rps, deleteFailed,
                 registerFailed>>
  /\ UNCHANGED <<downloadSemaphore, jobStatsSemaphore, jobsDone, jobsError,
                 cupsQueueSize, jobFullUsername, jobVar, spawned, proc,
                 tempFiles, controls, printCalls, polled, handed, stats>>

\* Lines 87-88 meet line 77: the loop sends the acknowledgement, Quit
\* receives it and returns, and the loop returns.
StopAcknowledged(c) ==
  /\ recon.pc = "ack"
  /\ quit[c].pc = "recv"
  /\ quit' = [quit EXCEPT ![c].pc = "returned"]
  /\ recon' = [recon EXCEPT !.pc = "exited"]
  /\ UNCHANGED <<gcpPrintersByGCPID, applying, rps, deleteFailed,
                 registerFailed>>
  /\ JobsUnchanged

\* Lines 84-85: the timer fires and the loop calls syncPrinters.
TimerFires(maxPasses) ==
  /\ recon.pc = "select"
  /\ recon.passes < maxPasses
  /\ recon' = [recon EXCEPT !.pc = "getprinters", !.passes = @ + 1,
                            !.ended = ""]
  /\ UNCHANGED <<gcpPrintersByGCPID, quit, applying, rps, deleteFailed,
                 registerFailed>>
  /\ JobsUnchanged

----------------------------------------------------------------------------
(* syncPrinters, lines 101-131, and applyDiff, lines 133-197.              *)

\* syncPrinters returns: to the loop's select, or, from the constructor's
\* call, to lines 69-72, which start the loop. The return taken is kept:
\* "failed" (line 107), "insync" (line 113) or "published" (line 131).
EndPass(how) ==
  [Idle EXCEPT !.passes = recon.passes, !.ended = how]

\* printerMapToSlice, lines 93-99: the printers of the map in the order in
\* which `range` visits it, which Go leaves unspecified: the slices the call
\* may return are the map's printers in every order of its keys.
printerMapToSlice(m) ==
  LET n == Cardinality(DOMAIN m)
      orders == {f \in [1 .. n -> DOMAIN m] :
                   \A i, j \in 1 .. n : f[i] = f[j] => i = j}
  IN  {[i \in 1 .. n |-> m[f[i]]] : f \in orders}

\* lib.DiffPrinters on one CUPS printer c and the registry's printer g of
\* the same name: the CUPS printer under g's id and semaphore, to be updated
\* if it differs from g and left alone otherwise.
DiffPrinter(c, g) ==
  LET printer == [Name |-> c.Name, GCPID |-> g.GCPID,
                  CapsHash |-> c.CapsHash, Description |-> c.Description,
                  CUPSJobSemaphore |-> g.CUPSJobSemaphore]
      hashChanged == c.CapsHash # g.CapsHash
  IN  IF hashChanged \/ c.Description # g.Description
      THEN [Operation |-> "Update", Printer |-> printer,
            CapsHashChanged |-> hashChanged]
      ELSE [Operation |-> "Leave", Printer |-> printer,
            CapsHashChanged |-> FALSE]

\* lib.DiffPrinters: one diff per registry printer (Update or Leave if CUPS
\* has a printer of that name, Delete if not), one Register per CUPS printer
\* the registry does not have; nil (the empty sequence) if nothing is to be
\* done.
DiffPrinters(cupsPrinters, gcpPrinters) ==
  LET named(n) == CHOOSE c \in cupsPrinters : c.Name = n
      cupsNames == {c.Name : c \in cupsPrinters}
      gcpNames == {gcpPrinters[i].Name : i \in 1 .. Len(gcpPrinters)}
      known == [i \in 1 .. Len(gcpPrinters) |->
                  IF gcpPrinters[i].Name \in cupsNames
                  THEN DiffPrinter(named(gcpPrinters[i].Name), gcpPrinters[i])
                  ELSE [Operation |-> "Delete", Printer |-> gcpPrinters[i],
                        CapsHashChanged |-> FALSE]]
      new == SelectSeq(NameOrder, LAMBDA n : n \in cupsNames \ gcpNames)
      unknown == [i \in 1 .. Len(new) |->
                    [Operation |-> "Register",
                     Printer |-> [Name |-> new[i], GCPID |-> "",
                                  CapsHash |-> named(new[i]).CapsHash,
                                  Description |-> named(new[i]).Description,
                                  CUPSJobSemaphore |-> EmptySemaphore],
                     CapsHashChanged |-> FALSE]]
      all == known \o unknown
  IN  IF \A i \in 1 .. Len(all) : all[i].Operation = "Leave"
      THEN << >>
      ELSE all

\* What syncPrinters leaves alone before it publishes.
PassUnchanged == UNCHANGED <<gcpPrintersByGCPID, quit>> /\ JobsUnchanged

\* Lines 104-108: cups.GetPrinters fails, which ends the pass, or returns
\* the printers CUPS has now.
GetPrinters(snapshots) ==
  /\ recon.pc = "getprinters"
  /\ \/ recon' = EndPass("failed")
     \/ \E snapshot \in snapshots :
          recon' = [recon EXCEPT !.pc = "diff", !.snapshot = snapshot]
  /\ UNCHANGED <<applying, rps, deleteFailed, registerFailed>>
  /\ PassUnchanged

\* Line 109: the diff of the CUPS printers against the registry, taken as a
\* slice in one of its orders.
Diff ==
  /\ recon.pc = "diff"
  /\ \E gcpPrinters \in printerMapToSlice(gcpPrintersByGCPID) :
       recon' = [recon EXCEPT
         !.pc = "diffed",
         !.diffs = DiffPrinters(recon.snapshot, gcpPrinters)]
  /\ deleteFailed' = [now |-> {}, prev |-> deleteFailed.now]
  /\ registerFailed' = [now |-> {}, prev |-> registerFailed.now]
  /\ UNCHANGED <<applying, rps>>
  /\ PassUnchanged

\* A pass without diffs that goes on to publish what it collected: nothing.
DispatchDiffsPublishesNil ==
  /\ recon.pc = "diffed"
  /\ IF recon.diffs = << >>
     THEN /\ recon' = EndPass("insync")
          /\ applying' = << >>
          /\ gcpPrintersByGCPID' = << >>
     ELSE /\ recon' = [recon EXCEPT !.pc = "collect", !.received = 0,
                                    !.currentPrinters = << >>]
          /\ applying' = [i \in 1 .. Len(recon.diffs) |->
                            [pc |-> "start", out |-> EmptyPrinter]]
          /\ UNCHANGED gcpPrintersByGCPID
  /\ UNCHANGED <<rps, deleteFailed, registerFailed, quit>>
  /\ JobsUnchanged

\* Lines 111-120: no diff ends the pass; otherwise one applyDiff goroutine is
\* started per diff and the results are awaited.
DispatchDiffs ==
  /\ recon.pc = "diffed"
  /\ IF recon.diffs = << >>
     THEN /\ recon' = EndPass("insync")
          /\ applying' = << >>
     ELSE /\ recon' = [recon EXCEPT !.pc = "collect", !.received = 0,
                                    !.currentPrinters = << >>]
          /\ applying' = [i \in 1 .. Len(recon.diffs) |->
                            [pc |-> "start", out |-> EmptyPrinter]]
  /\ UNCHANGED <<rps, deleteFailed, registerFailed>>
  /\ PassUnchanged

\* A pass has at most one diff per printer of the registry and one per
\* printer of CUPS, and both hold at most one printer of each name.
DiffSlots == 1 .. (2 * Len(NameOrder))

\* The id gcp.Register gives a new printer: one GCP has never given out.
\* GCP numbers its printers r7, r8, r9, ... without end, so the ids given out
\* so far, the listed ones included, are the first of that series and the
\* next one is new.
NewGCPID == "r" \o ToString(7 + Cardinality(rps.issued))

\* An applyDiff goroutine has its result and blocks in the send on ch.
Sending(i, printer) ==
  applying' = [applying EXCEPT ![i] = [pc |-> "send", out |-> printer]]

\* An applyDiff goroutine goes on to its next call.
Calling(i, pc, printer) ==
  applying' = [applying EXCEPT ![i] = [pc |-> pc, out |-> printer]]

\* Lines 135-141: Register begins with cups.GetPPD, whose failure gives the
\* empty printer.
ApplyRegisterGetPPD(i) ==
  /\ i \in DOMAIN applying
  /\ applying[i].pc = "start"
  /\ recon.diffs[i].Operation = "Register"
  /\ \E ppdOk \in BOOLEAN :
       IF ppdOk
       THEN /\ Calling(i, "register", EmptyPrinter)
            /\ UNCHANGED registerFailed
       ELSE /\ Sending(i, EmptyPrinter)
            /\ registerFailed' =
                 [registerFailed EXCEPT
                    !.now = @ \cup {recon.diffs[i].Printer.Name}]
  /\ UNCHANGED <<recon, rps, deleteFailed>>
  /\ PassUnchanged

\* A gcp.Register whose failure sends the diff's printer, as Update does.
ApplyRegisterKeepsFailed(i) ==
  /\ i \in DOMAIN applying
  /\ applying[i].pc = "register"
  /\ \E registerOk \in BOOLEAN :
       IF registerOk
       THEN /\ Calling(i, "share",
                       [recon.diffs[i].Printer EXCEPT !.GCPID = NewGCPID])
            /\ rps' = [ids |-> rps.ids \cup {NewGCPID},
                       issued |-> rps.issued \cup {NewGCPID},
                       calls |-> rps.calls \cup {"Register"}]
            /\ UNCHANGED registerFailed
       ELSE /\ Sending(i, recon.diffs[i].Printer)
            /\ rps' = [rps EXCEPT !.calls = @ \cup {"Register"}]
            /\ registerFailed' =
                 [registerFailed EXCEPT
                    !.now = @ \cup {recon.diffs[i].Printer.Name}]
  /\ UNCHANGED <<recon, deleteFailed>>
  /\ PassUnchanged

\* Lines 142-146: gcp.Register fails, which gives the empty printer, or
\* registers the printer, which gets its id from GCP.
ApplyRegister(i) ==
  /\ i \in DOMAIN applying
  /\ applying[i].pc = "register"
  /\ \E registerOk \in BOOLEAN :
       IF registerOk
       THEN /\ Calling(i, "share",
                       [recon.diffs[i].Printer EXCEPT !.GCPID = NewGCPID])
            /\ rps' = [ids |-> rps.ids \cup {NewGCPID},
                       issued |-> rps.issued \cup {NewGCPID},
                       calls |-> rps.calls \cup {"Register"}]
            /\ UNCHANGED registerFailed
       ELSE /\ Sending(i, EmptyPrinter)
            /\ rps' = [rps EXCEPT !.calls = @ \cup {"Register"}]
            /\ registerFailed' =
                 [registerFailed EXCEPT
                    !.now = @ \cup {recon.diffs[i].Printer.Name}]
  /\ UNCHANGED <<recon, deleteFailed>>
  /\ PassUnchanged

\* Lines 148-158: the registered printer is shared if GCP can share (a
\* failure to share is only logged), gets a semaphore and is sent.
ApplyRegisterShare(i) ==
  /\ i \in DOMAIN applying
  /\ applying[i].pc = "share"
  /\ \E canShare \in BOOLEAN :
       rps' = [rps EXCEPT !.calls = IF canShare THEN @ \cup {"Share"} ELSE @]
  /\ Sending(i, [applying[i].out EXCEPT
                   !.CUPSJobSemaphore = NewSemaphore(cupsQueueSize)])
  /\ UNCHANGED <<recon, deleteFailed, registerFailed>>
  /\ PassUnchanged

\* Lines 161-172: Update of a printer whose driver changed begins with
\* cups.GetPPD, whose failure skips gcp.Update and sends the diff's printer.
ApplyUpdateGetPPD(i) ==
  /\ i \in DOMAIN applying
  /\ applying[i].pc = "start"
  /\ recon.diffs[i].Operation = "Update"
  /\ recon.diffs[i].CapsHashChanged
  /\ \E ppdOk \in BOOLEAN :
       IF ppdOk THEN Calling(i, "update", EmptyPrinter)
       ELSE Sending(i, recon.diffs[i].Printer)
  /\ UNCHANGED <<recon, rps, deleteFailed, registerFailed>>
  /\ PassUnchanged

\* Lines 174-181: gcp.Update is called, at once if the driver did not change;
\* it may fail, and the diff's printer is sent in either case.
ApplyUpdate(i) ==
  /\ i \in DOMAIN applying
  /\ \/ applying[i].pc = "update"
     \/ /\ applying[i].pc = "start"
        /\ recon.diffs[i].Operation = "Update"
        /\ ~recon.diffs[i].CapsHashChanged
  /\ rps' = [rps EXCEPT !.calls = @ \cup {"Update"}]
  /\ Sending(i, recon.diffs[i].Printer)
  /\ UNCHANGED <<recon, deleteFailed, registerFailed>>
  /\ PassUnchanged

\* A Delete whose failure ends the goroutine without a send.
ApplyDeleteSilent(i) ==
  /\ i \in DOMAIN applying
  /\ applying[i].pc = "start"
  /\ recon.diffs[i].Operation = "Delete"
  /\ \E ok \in BOOLEAN :
       /\ rps' = [rps EXCEPT
                    !.ids = IF ok THEN @ \ {recon.diffs[i].Printer.GCPID}
                            ELSE @,
                    !.calls = @ \cup {"Delete"}]
       /\ deleteFailed' =
            IF ok THEN deleteFailed
            ELSE [deleteFailed EXCEPT !.now = @ \cup {recon.diffs[i].Printer}]
       /\ applying' = [applying EXCEPT ![i] =
            [pc |-> IF ok THEN "send" ELSE "done", out |-> EmptyPrinter]]
  /\ UNCHANGED <<recon, registerFailed>>
  /\ PassUnchanged

\* Lines 183-188 and 196: Delete. gcp.Delete succeeds or fails; the empty
\* printer is sent in both cases.
ApplyDelete(i) ==
  /\ i \in DOMAIN applying
  /\ applying[i].pc = "start"
  /\ recon.diffs[i].Operation = "Delete"
  /\ \E ok \in BOOLEAN :
       /\ rps' = [rps EXCEPT
                    !.ids = IF ok THEN @ \ {recon.diffs[i].Printer.GCPID}
                            ELSE @,
                    !.calls = @ \cup {"Delete"}]
       /\ deleteFailed' =
            IF ok THEN deleteFailed
            ELSE [deleteFailed EXCEPT !.now = @ \cup {recon.diffs[i].Printer}]
  /\ Sending(i, EmptyPrinter)
  /\ UNCHANGED <<recon, registerFailed>>
  /\ PassUnchanged

\* Lines 190-193: Leave. The diff's printer is sent.
ApplyLeave(i) ==
  /\ i \in DOMAIN applying
  /\ applying[i].pc = "start"
  /\ recon.diffs[i].Operation = "Leave"
  /\ Sending(i, recon.diffs[i].Printer)
  /\ UNCHANGED <<recon, rps, deleteFailed, registerFailed>>
  /\ PassUnchanged

\* The operations the switch of line 134 has a case for.
KnownOperations == {"Register", "Update", "Delete", "Leave"}

\* Lines 134 and 196: an operation the switch has no case for. No case runs
\* and the empty printer is sent.
ApplyUnknown(i) ==
  /\ i \in DOMAIN applying
  /\ applying[i].pc = "start"
  /\ recon.diffs[i].Operation \notin KnownOperations
  /\ Sending(i, EmptyPrinter)
  /\ UNCHANGED <<recon, rps, deleteFailed, registerFailed>>
  /\ PassUnchanged

\* A test that keeps every printer received.
KeepAll(p) == TRUE

\* Line 123: the test that keeps a received printer.
Keep(p) == p.Name # ""

\* Line 124: currentPrinters[p.GCPID] = p.
Put(m, p) ==
  [id \in DOMAIN m \cup {p.GCPID} |-> IF id = p.GCPID THEN p ELSE m[id]]

\* Lines 121-126 meet the send of lines 158, 169, 180, 192 or 196: a result
\* is received from ch and kept under its id unless its name is empty.
Collect(i) ==
  /\ recon.pc = "collect"
  /\ i \in DOMAIN applying
  /\ applying[i].pc = "send"
  /\ applying' = [applying EXCEPT ![i].pc = "done"]
  /\ recon' = [recon EXCEPT
       !.received = @ + 1,
       !.currentPrinters = IF Keep(applying[i].out)
                           THEN Put(@, applying[i].out) ELSE @]
  /\ UNCHANGED <<rps, deleteFailed, registerFailed>>
  /\ PassUnchanged

\* Line 128: every diff has given its result; the registry is replaced.
Publish ==
  /\ recon.pc = "collect"
  /\ recon.received = Len(recon.diffs)
  /\ gcpPrintersByGCPID' = recon.currentPrinters
  /\ recon' = [recon EXCEPT !.pc = "finished"]
  /\ UNCHANGED <<quit, applying, rps, deleteFailed, registerFailed>>
  /\ JobsUnchanged

\* Lines 130-131: syncPrinters returns.
Finish ==
  /\ recon.pc = "finished"
  /\ recon' = EndPass("published")
  /\ applying' = << >>
  /\ rps' = [rps EXCEPT !.calls = {}]
  /\ UNCHANGED <<deleteFailed, registerFailed>>
  /\ PassUnchanged

SyncNext(callers, maxPasses, snapshots) ==
  \/ \E c \in callers :
       \/ QuitCall(c)
       \/ StopReceived(c)
       \/ StopAcknowledged(c)
  \/ TimerFires(maxPasses)
  \/ GetPrinters(snapshots)
  \/ Diff
  \/ DispatchDiffs
  \/ \E i \in DiffSlots :
       \/ ApplyRegisterGetPPD(i)
       \/ ApplyRegister(i)
       \/ ApplyRegisterShare(i)
       \/ ApplyUpdateGetPPD(i)
       \/ ApplyUpdate(i)
       \/ ApplyDelete(i)
       \/ ApplyLeave(i)
       \/ Collect(i)
  \/ Publish
  \/ Finish

\* The printer side alone, from the constructor's pass on, with one caller
\* of Quit.
InitPrinters ==
  /\ InitManager(Listings, {QueueSize}, {MaxDownloads}, {FALSE})
  /\ InitJobs
  /\ InitSync

NextSync == SyncNext({1}, MaxPasses, Snapshots)

SpecSync == InitPrinters /\ [][NextSync]_vars

\* One job and one caller of Quit, with the reconciler waiting in its
\* select.
NextQuit ==
  \/ JobsNext(1, 1, {Alice}, MaxTicks, FinalCupsStates, {""})
  \/ QuitCall(1)
  \/ StopReceived(1)
  \/ StopAcknowledged(1)

SpecQuit == Init /\ [][NextQuit]_vars

\* Two callers of Quit and a reconciler whose timer fires once.
NextQuits ==
  \/ SyncNext(Callers, 1, Snapshots)
  \/ \E c, d \in Callers : QuitCrossed(c, d)

SpecQuits == Init /\ [][NextQuits]_vars

\* What cups.GetPrinters returns in the runs under fair scheduling: no
\* printer, HP with another description, HP with another driver, or HP as
\* listed together with LJ, which gives every operation a diff.
FairSnapshots ==
  {{}, {CupsPrinter("HP", "h1", "d2")}, {CupsPrinter("HP", "h2", "d1")},
   {HP, LJ}}

\* The steps of a syncPrinters pass and of its applyDiff goroutines. Every
\* call to CUPS and GCP returns and the Go scheduler runs every goroutine
\* that can run.
PassStep ==
  \/ GetPrinters(FairSnapshots)
  \/ Diff
  \/ DispatchDiffs
  \/ \E i \in DiffSlots :
       \/ ApplyRegisterGetPPD(i)
       \/ ApplyRegister(i)
       \/ ApplyRegisterShare(i)
       \/ ApplyUpdateGetPPD(i)
       \/ ApplyUpdate(i)
       \/ ApplyDelete(i)
       \/ ApplyLeave(i)
       \/ Collect(i)
  \/ Publish
  \/ Finish

\* The constructor is about to run its pass and gcp.List returned HP.
InitFair ==
  /\ InitManager({{Listed(HP, "r7")}}, {QueueSize}, {MaxDownloads}, {FALSE})
  /\ InitJobs
  /\ InitSync

NextSyncFair == SyncNext({1}, MaxPasses, FairSnapshots)

\* The printer side under fair scheduling: a pass goes on while it can, the
\* select of line 83 does not pass over a ready stop signal for ever, and
\* the acknowledgement of line 87 is sent once Quit waits for it.
SpecSyncFair ==
  /\ InitFair
  /\ [][NextSyncFair]_vars
  /\ WF_vars(PassStep)
  /\ SF_vars(StopReceived(1))
  /\ WF_vars(StopAcknowledged(1))

\* The diffs syncPrinters may be handed at line 109 as far as the type
\* []lib.PrinterDiff goes: any operation, one outside the switch's cases
\* included, on the listed printer HP or, for Register, on the unregistered
\* printer LJ.
DiffOf(operation, hashChanged) ==
  [Operation |-> operation,
   Printer |-> IF operation = "Register"
               THEN [Name |-> "LJ", GCPID |-> "", CapsHash |-> "h1",
                     Description |-> "d1",
                     CUPSJobSemaphore |-> EmptySemaphore]
               ELSE WithSemaphore(Listed(HP, "r7"), cupsQueueSize),
   CapsHashChanged |-> hashChanged]

AnyDiff ==
  {DiffOf(operation, FALSE) : operation \in KnownOperations \cup {"Unknown"}}
    \cup {DiffOf("Update", TRUE)}

AnyDiffs == UNION {[1 .. n -> AnyDiff] : n \in 0 .. MaxDiffs}

\* The constructor's pass at line 111, with HP listed and any diffs.
InitApply ==
  /\ InitManager({{Listed(HP, "r7")}}, {QueueSize}, {MaxDownloads}, {FALSE})
  /\ InitJobs
  /\ quit = [c \in Callers |-> NotCalled]
  /\ \E diffs \in AnyDiffs :
       recon = [Idle EXCEPT !.pc = "diffed", !.ctor = TRUE, !.diffs = diffs]
  /\ applying = << >>
  /\ deleteFailed = [now |-> {}, prev |-> {}]
  /\ registerFailed = [now |-> {}, prev |-> {}]

\* Lines 111-131 and applyDiff on every operation.
NextApply ==
  \/ DispatchDiffs
  \/ \E i \in 1 .. MaxDiffs :
       \/ ApplyRegisterGetPPD(i)
       \/ ApplyRegister(i)
       \/ ApplyRegisterShare(i)
       \/ ApplyUpdateGetPPD(i)
       \/ ApplyUpdate(i)
       \/ ApplyDelete(i)
       \/ ApplyLeave(i)
       \/ ApplyUnknown(i)
       \/ Collect(i)
  \/ Publish
  \/ Finish

\* Every call to CUPS and GCP returns and the Go scheduler runs every
\* goroutine that can run.
SpecApplyFair == InitApply /\ [][NextApply]_vars /\ WF_vars(NextApply)

----------------------------------------------------------------------------
(* Properties of the job side.                                             *)

\* The goroutines that have executed the `+= 1` of incrementJobsProcessed.
Incremented == {p \in Proc : proc[p].pc \in {"inc_release", "return", "done"}}
Terminated == {p \in Proc : proc[p].pc = "done"}

C1_Counted ==
  /\ jobsDone = Cardinality({p \in Incremented : proc[p].success})
  /\ jobsError = Cardinality({p \in Incremented : ~proc[p].success})
  /\ jobsDone + jobsError = Cardinality(Incremented)

C1_Monotone == jobsDone' >= jobsDone /\ jobsError' >= jobsError

\* C1: every processJob that has passed its increment has added one to
\* exactly one of jobsDone and jobsError, no increment of concurrently running
\* goroutines is lost (jobsDone + jobsError is the number of goroutines past
\* their increment), and neither counter ever decreases.
C1_CountersExact == [] C1_Counted /\ [][C1_Monotone]_vars

\* Two goroutines have terminated, one counted as done and one as an error,
\* after both were inside incrementJobsProcessed together.
C1_Witness ==
  \E p, q \in Terminated :
     /\ p # q
     /\ proc[p].success /\ ~proc[q].success
     /\ jobsDone = 1 /\ jobsError = 1

\* The goroutines between downloadSemaphore.Acquire and its Release.
Downloading == {p \in Proc : proc[p].pc \in {"download", "release"}}

\* C2: the number of processJob goroutines between acquiring and releasing
\* the download semaphore never exceeds the configured
\* gcpMaxConcurrentDownload.
C2_DownloadsBounded == Cardinality(Downloading) <= MaxDownloads

\* The configured number of downloads is in flight, one of them has failed,
\* and another goroutine waits for the semaphore.
C2_Witness ==
  /\ Cardinality(Downloading) = MaxDownloads
  /\ \E p \in Downloading : proc[p].pc = "release" /\ proc[p].err
  /\ \E p \in Proc : proc[p].pc = "acquire"

Terminal(c) == c.status \in {JobDone, JobError}

\* C3: in the sequence of gcp.Control calls of one processJob, a call with
\* status DONE or ERROR is the last one: nothing is reported after it.
C3_TerminalReportIsLast ==
  \A p \in Proc :
    \A i \in 1 .. Len(controls[p]) :
      Terminal(controls[p][i]) => i = Len(controls[p])

\* A goroutine has terminated after reporting IN_PROGRESS and then a terminal
\* status from the poll loop.
C3_Witness ==
  \E p \in Terminated :
    /\ Len(controls[p]) >= 2
    /\ controls[p][1].status = JobInProgress
    /\ Terminal(controls[p][Len(controls[p])])
    /\ proc[p].ticks < MaxTicks

\* The goroutines past the ticket fetch that have not reported a terminal
\* status, for the printer with the given id.
InQueue(id) ==
  {p \in Proc :
     /\ proc[p].pc \in {"tempfile", "acquire", "download", "release", "owner",
                        "print", "poll", "answered"}
     /\ proc[p].printer.GCPID = id}

\* C6 as claimed: for each printer of the registry, the jobs past ticket
\* fetch and before their terminal report number at most the capacity of the
\* printer's queue semaphore.
C6_QueueBounded ==
  \A id \in DOMAIN gcpPrintersByGCPID :
    Cardinality(InQueue(id)) <= gcpPrintersByGCPID[id].CUPSJobSemaphore.size

\* C7 as claimed: a processJob that obtained a temp file has removed it by
\* the time it terminates.
C7_TempFileRemoved ==
  \A p \in Terminated : proc[p].hasFile => p \notin tempFiles

\* The pair a GetJobStatus answer projects to.
Pair(answer) == <<GCPStatus(answer[1]), answer[2]>>

\* The reports a sequence of answers calls for: an answer is reported if and
\* only if its pair differs from the pair last reported (none at first).
RECURSIVE ReportsFrom(_, _)
ReportsFrom(answers, last) ==
  IF answers = << >> THEN << >>
  ELSE LET pair == Pair(Head(answers))
       IN  IF pair = last THEN ReportsFrom(Tail(answers), last)
           ELSE <<pair>> \o ReportsFrom(Tail(answers), pair)

\* The answers a goroutine got from GetJobStatus and has dealt with (the
\* last one is still to be compared while the goroutine is at line 317), and
\* the status reports it made in the poll loop.
Answers(p) ==
  LET got == SelectSeq(polled[p], LAMBDA a : a[1] # "error")
  IN  IF proc[p].pc = "answered" THEN SubSeq(got, 1, Len(got) - 1) ELSE got
PollReports(p) ==
  LET made == SelectSeq(controls[p], LAMBDA c : c.message # "getstatus")
  IN  [i \in 1 .. Len(made) |-> <<made[i].status, made[i].message>>]

ScenarioS6 ==
  <<<<"pending", "q">>, <<"processing", "q">>, <<"processing", "printing">>,
    <<"completed", "">>>>

ReportsS6 ==
  <<<<JobInProgress, "q">>, <<JobInProgress, "printing">>, <<JobDone, "">>>>

\* C8: in the poll loop a status is reported to GCP at a tick if and only if
\* the projected (status, message) pair differs from the pair last reported:
\* at every moment the reports made are those the answers dealt with so far
\* call for, an answer just received is reported in the goroutine's next
\* step if and only if its pair differs, and the answers in-progress "q",
\* in-progress "q", in-progress "printing", done "" give exactly three
\* reports.
C8_ReportOnChange ==
  \A p \in Proc :
    Len(polled[p]) > 0 =>
      /\ PollReports(p) = ReportsFrom(Answers(p), <<"", "">>)
      /\ proc[p].pc = "answered" =>
           /\ ENABLED PollReport(p)
           /\ proc[p].latest = polled[p][Len(polled[p])]
           /\ <<proc[p].status, proc[p].message>> =
                IF PollReports(p) = << >> THEN <<"", "">>
                ELSE PollReports(p)[Len(PollReports(p))]
      /\ (polled[p] = ScenarioS6 /\ proc[p].pc # "answered") =>
           PollReports(p) = ReportsS6

\* The scenario's four answers have been received and answered with the
\* three reports.
C8_Witness ==
  \E p \in Proc :
    /\ polled[p] = ScenarioS6
    /\ proc[p].pc # "answered"
    /\ PollReports(p) = ReportsS6

\* The prefix of an owner identifier before its first "@" (all of it when it
\* has none): the longest prefix without the separator.
PrefixBeforeAt(owner) ==
  LET k == CHOOSE n \in 0 .. Len(owner) :
             /\ \A i \in 1 .. n : owner[i] # "@"
             /\ n = Len(owner) \/ owner[n + 1] = "@"
  IN  SubSeq(owner, 1, k)

\* The manager's username-truncation flag: the constructor is given
\* jobFullUsername, "pass the full username on", and line 289 truncates when
\* that is false, so truncation is on exactly when jobFullUsername is off.
TruncateUsername == ~jobFullUsername

\* C9: with the truncation flag on, the owner passed to cups.Print is the
\* prefix of the job's owner before its first "@" (all of it when it has
\* none); with the flag off it is the job's owner unchanged.
C9_UsernameProjection ==
  \A p \in Proc :
    \A i \in 1 .. Len(printCalls[p]) :
      printCalls[p][i].owner =
        IF TruncateUsername THEN PrefixBeforeAt(JobOf(p).OwnerID)
        ELSE JobOf(p).OwnerID

\* cups.Print has been called for an owner with text before and after an
\* "@", with truncation on, and was given the text before it.
C9_Witness ==
  \E p \in Proc :
    /\ TruncateUsername
    /\ Len(printCalls[p]) = 1
    /\ IndexFrom(JobOf(p).OwnerID, 1) = 2
    /\ Len(JobOf(p).OwnerID) = 3
    /\ printCalls[p][1].owner = SubSeq(JobOf(p).OwnerID, 1, 1)

----------------------------------------------------------------------------
(* Properties of the printer side.                                         *)

\* C4: with a single caller of Quit, when Quit has returned the reconciler
\* loop has received the stop signal and has returned, no syncPrinters pass
\* is running or begins, and every applyDiff of the pass that was running
\* when Quit was called has delivered its result.
C4_QuitStopsReconciler ==
  \A c \in Callers :
    quit[c].pc = "returned" =>
      /\ recon.pc = "exited"
      /\ ~InPass
      /\ applying = << >>

\* Quit was called while a pass was running and has returned.
C4_Witness ==
  \E c \in Callers :
    /\ quit[c].pc = "returned"
    /\ quit[c].duringPass
    /\ recon.pc = "exited"
    /\ recon.passes >= 1

\* The printers the applyDiff goroutines of the pass have sent that are not
\* the empty printer.
Emitted ==
  {applying[i].out : i \in {j \in DOMAIN applying :
                              applying[j].out # EmptyPrinter}}
EmittedEmpty == {i \in DOMAIN applying : applying[i].out = EmptyPrinter}

\* C5: when a pass has published the registry, its keys are exactly the ids
\* of the non-empty printers the applyDiff goroutines sent, each entry is
\* filed under its own id, and the id of every diff that sent the empty
\* printer is absent.
C5_PublishedKeys ==
  recon.pc = "finished" =>
    /\ DOMAIN gcpPrintersByGCPID = {p.GCPID : p \in Emitted}
    /\ \A id \in DOMAIN gcpPrintersByGCPID :
         gcpPrintersByGCPID[id].GCPID = id
    /\ \A i \in EmittedEmpty :
         recon.diffs[i].Printer.GCPID \notin DOMAIN gcpPrintersByGCPID

\* A pass has published a registry of one printer it registered while the
\* Delete of another and the Register of a third gave the empty printer.
C5_Witness ==
  /\ recon.pc = "finished"
  /\ Cardinality(DOMAIN gcpPrintersByGCPID) = 1
  /\ \E i, j \in DOMAIN applying :
       /\ recon.diffs[i].Operation = "Delete"
       /\ recon.diffs[j].Operation = "Register"
       /\ applying[j].out # EmptyPrinter
       /\ applying[j].out.GCPID \in DOMAIN gcpPrintersByGCPID

\* C10 as claimed: a printer whose gcp.Delete failed in the last pass and
\* that CUPS still does not have gets a Delete again in the next pass's diff.
C10_DeleteRetried ==
  recon.pc = "diffed" =>
    \A g \in deleteFailed.prev :
      g.Name \notin {c.Name : c \in recon.snapshot} =>
        \E i \in 1 .. Len(recon.diffs) :
          /\ recon.diffs[i].Operation = "Delete"
          /\ recon.diffs[i].Printer.GCPID = g.GCPID

----------------------------------------------------------------------------
(* Failures of the stages of processJob.                                   *)

\* The calls processJob makes to the services before its poll loop, in order.
Pipeline == <<"ticket", "tempfile", "download", "print">>

\* The calls of a processJob whose given stage failed (after the given number
\* of status queries): the stages up to the failed one and none after it.
CallsUpTo(stage, ticks) ==
  CASE stage = "find" -> << >>
    [] stage = "ticket" -> SubSeq(Pipeline, 1, 1)
    [] stage = "tempfile" -> SubSeq(Pipeline, 1, 2)
    [] stage = "download" -> SubSeq(Pipeline, 1, 3)
    [] stage = "print" -> Pipeline
    [] stage = "getstatus" -> Pipeline \o [i \in 1 .. ticks |-> "getstatus"]

ErrorControls(p) == SelectSeq(controls[p], LAMBDA c : c.status = JobError)

\* C11: a processJob one of whose stages failed (printer lookup, Ticket,
\* CreateTempFile, Download, Print, GetJobStatus) makes exactly one
\* gcp.Control call with status ERROR, for its job and with the failure's
\* message, as its last report; it is counted once, as an error; it has
\* called the stages up to the failed one once each and no later stage; a
\* job for a printer that is not in the registry causes no CUPS call at all;
\* and no job is given to a second processJob.
C11_FailureReportedOnce ==
  /\ spawned <= handed
  /\ \A p \in Proc :
       proc[p].msg # "" =>
         /\ Len(ErrorControls(p)) = IF proc[p].pc = "report" THEN 0 ELSE 1
         /\ proc[p].pc # "report" =>
              controls[p][Len(controls[p])] =
                ControlCall(JobOf(p).GCPJobID, JobError, proc[p].msg)
         /\ proc[p].calls = CallsUpTo(proc[p].msg, proc[p].ticks)
         /\ proc[p].msg = "find" =>
              /\ proc[p].calls = << >>
              /\ ~proc[p].hasFile
              /\ printCalls[p] = << >>
              /\ polled[p] = << >>
         /\ ~proc[p].success
         /\ jobsDone = Cardinality({q \in Incremented : proc[q].success})
         /\ jobsError = Cardinality({q \in Incremented : ~proc[q].success})

\* A job for the unknown printer r99 has ended with one ERROR report, one
\* error counted and no call to CUPS or to any later stage.
C11_Witness ==
  \E p \in Terminated :
    /\ JobOf(p).GCPPrinterID = "r99"
    /\ proc[p].msg = "find"
    /\ Len(controls[p]) = 1
    /\ proc[p].calls = << >>
    /\ jobsError = 1

----------------------------------------------------------------------------
(* GetJobStats.                                                            *)

\* C12 as claimed: a job between its successful cups.Print and its terminal
\* status holds its printer's CUPSJobSemaphore, so the processing value a
\* call of GetJobStats returns counts every job that was submitted at the
\* instant of the call.
C12_ProcessingCountsSubmitted ==
  stats.called => stats.result.processing >= Cardinality(stats.submitted)

----------------------------------------------------------------------------
(* The results of applyDiff.                                               *)

Delivered == {i \in DOMAIN applying : applying[i].pc = "done"}

C13_OneResultPerDiff ==
  /\ recon.pc \in {"collect", "finished"} =>
       /\ Len(applying) = Len(recon.diffs)
       /\ recon.received = Cardinality(Delivered)
  /\ recon.pc = "finished" =>
       /\ recon.received = Len(recon.diffs)
       /\ Delivered = DOMAIN applying

\* C13: in a pass with n diffs every applyDiff goroutine sends one value on
\* the channel, whatever its operation (one the switch has no case for
\* included) and whether its calls fail or not: syncPrinters has received as
\* many results as goroutines have delivered, it publishes after exactly n
\* results, by then no goroutine is left before or in its send, and every
\* pass that dispatched its diffs completes.
C13_EveryDiffAnswers ==
  /\ [] C13_OneResultPerDiff
  /\ (recon.pc = "collect") ~> (recon.pc = "finished")

\* A pass of two diffs has completed: the applyDiff of an operation without
\* a case and the applyDiff of a Delete that failed have both delivered the
\* empty printer.
C13_Witness ==
  /\ recon.pc = "finished"
  /\ Len(recon.diffs) = 2
  /\ recon.received = 2
  /\ deleteFailed.now # {}
  /\ \E j \in DOMAIN applying :
       /\ recon.diffs[j].Operation \notin KnownOperations
       /\ applying[j].pc = "done"
       /\ applying[j].out = EmptyPrinter

----------------------------------------------------------------------------
(* Registers that fail.                                                    *)

RegistryNames == {gcpPrintersByGCPID[id].Name : id \in DOMAIN gcpPrintersByGCPID}

RegisterDiffs ==
  {i \in 1 .. Len(recon.diffs) : recon.diffs[i].Operation = "Register"}

\* C14: when a pass has published, a printer whose Register failed (GetPPD
\* or gcp.Register) is not in the registry, a printer whose Register
\* succeeded is, under the id GCP gave it, and every other result of the
\* pass is in the registry whatever failed beside it; and in the diff of a
\* later pass the printers whose Register failed last time are still
\* unknown to the registry, and every printer of the CUPS snapshot that the
\* registry does not know has a Register diff again.
C14_RegisterRetried ==
  /\ recon.pc = "finished" =>
       /\ \A i \in RegisterDiffs :
            IF applying[i].out = EmptyPrinter
            THEN /\ recon.diffs[i].Printer.Name \in registerFailed.now
                 /\ recon.diffs[i].Printer.Name \notin RegistryNames
            ELSE /\ applying[i].out.GCPID \in DOMAIN gcpPrintersByGCPID
                 /\ applying[i].out.Name = recon.diffs[i].Printer.Name
       /\ \A i \in DOMAIN applying :
            applying[i].out # EmptyPrinter =>
              /\ applying[i].out.GCPID \in DOMAIN gcpPrintersByGCPID
              /\ gcpPrintersByGCPID[applying[i].out.GCPID] = applying[i].out
  /\ recon.pc = "diffed" =>
       /\ registerFailed.prev \cap RegistryNames = {}
       /\ \A c \in recon.snapshot :
            c.Name \notin RegistryNames =>
              \E i \in RegisterDiffs : recon.diffs[i].Printer.Name = c.Name

\* The Register of HP failed in the last pass; in this pass it succeeded and
\* HP is in the published registry, while the Register of LJ failed beside
\* it.
C14_Witness ==
  /\ recon.pc = "finished"
  /\ "HP" \in registerFailed.prev
  /\ "HP" \in RegistryNames
  /\ "LJ" \in registerFailed.now
  /\ "LJ" \notin RegistryNames

----------------------------------------------------------------------------
(* Passes that end early.                                                  *)

\* The part of a pass before any applyDiff goroutine is started.
BeforeDispatch == recon.pc \in {"getprinters", "diff", "diffed"}

C15_NothingCalled ==
  (BeforeDispatch \/ recon.ended \in {"failed", "insync"}) =>
    /\ rps.calls = {}
    /\ applying = << >>

C15_RegistryKept ==
  BeforeDispatch /\ recon'.ended \in {"", "failed", "insync"} =>
    /\ gcpPrintersByGCPID' = gcpPrintersByGCPID
    /\ rps' = rps

\* C15: a pass whose cups.GetPrinters fails, or whose diff is nil, returns
\* with the registry as it was when the pass began and without any call of
\* gcp.Register, Update, Delete or Share: no step of a pass before its
\* dispatch changes the registry or calls GCP, and a pass that ends from
\* there has started no applyDiff.
C15_EarlyReturnKeepsRegistry ==
  [] C15_NothingCalled /\ [][C15_RegistryKept]_vars

\* A timed pass over a registry with a printer has ended because
\* cups.GetPrinters failed.
C15_Witness ==
  /\ recon.pc = "select"
  /\ recon.ended = "failed"
  /\ recon.passes >= 1
  /\ DOMAIN gcpPrintersByGCPID # {}

----------------------------------------------------------------------------
(* The job a processJob works on.                                          *)

\* C16 as claimed: the k-th job NextJobBatch returned is handed to the k-th
\* processJob and to no other, and that goroutine uses that job's identity
\* for its whole run: every gcp.Control it makes and every cups.Print it
\* makes names its own job, so that no job is processed twice and none is
\* skipped.
C16_OwnJob ==
  \A p \in Proc :
    /\ \A i \in 1 .. Len(controls[p]) : controls[p][i].job = p
    /\ \A i \in 1 .. Len(printCalls[p]) : printCalls[p][i].title = p
    /\ \A i \in 1 .. Len(proc[p].urls) : proc[p].urls[i] = p

----------------------------------------------------------------------------
(* Termination of Quit.                                                    *)

\* C17: with a single caller, under fair scheduling and with every call to
\* CUPS and GCP returning, a call of Quit returns: the send of line 76 is
\* received by the loop and the loop's acknowledgement by Quit, whether Quit
\* was called between passes, during a pass, or with the timer ready to
\* fire again at once.
C17_QuitReturns ==
  (quit[1].pc = "send") ~> (quit[1].pc = "returned")

\* Quit was called during a pass that went on to publish, and has returned
\* although the timer could have fired again.
C17_Witness ==
  /\ quit[1].pc = "returned"
  /\ quit[1].duringPass
  /\ recon.ended = "published"
  /\ recon.passes < MaxPasses

----------------------------------------------------------------------------
(* Quit and the intake of jobs.                                            *)

\* C18: Quit stops the reconciler only: the consumer of listenGCPJobs never
\* takes its stop case, in every state it is in its select, and a job the
\* producer holds out is received and given to a new processJob, also after
\* Quit has returned.
C18_IntakeSurvivesQuit ==
  /\ prod.consumer = "select"
  /\ prod.pc = "send" => ENABLED Dispatch

\* A job that NextJobBatch returned after Quit had returned, with the
\* reconciler gone, has been given to a processJob.
C18_Witness ==
  /\ quit[1].pc = "returned"
  /\ recon.pc = "exited"
  /\ prod.afterQuit
  /\ spawned = 1
  /\ proc[1].pc = "lookup"

----------------------------------------------------------------------------
(* Quit called more than once.                                             *)

\* A caller in the send of line 76 after the loop has returned has nobody to
\* send to.
C19_NoReceiver ==
  \A c \in Callers :
    quit[c].pc = "send" /\ recon.pc = "exited" =>
      /\ \A d \in Callers : quit[d].pc # "recv"
      /\ ~ ENABLED (StopReceived(c) \/ \E d \in Callers : QuitCrossed(c, d))

C19_StaysBlocked ==
  /\ \A c \in Callers :
       quit[c].pc = "send" /\ recon.pc = "exited" => quit'[c].pc = "send"
  /\ recon.pc \in {"ack", "exited"} => recon'.pc \in {"ack", "exited"}

\* C19: Quit can be used once. A caller that is in the send of line 76 when
\* the loop has returned (a call made after an earlier Quit returned, or the
\* call of two concurrent ones that the loop did not hear) has no receiver
\* and stays in that send for ever; and the loop, once it has received a
\* stop signal, never selects again, so it is stopped at most once.
C19_QuitIsSingleUse ==
  [] C19_NoReceiver /\ [][C19_StaysBlocked]_vars

\* Two callers were in Quit together; one has returned, the loop has
\* returned, and the other is left in its send.
C19_Witness ==
  \E c, d \in Callers :
    /\ quit[c].pc = "returned"
    /\ quit[d].pc = "send"
    /\ "calling" \in {quit[c].sawOther, quit[d].sawOther}
    /\ recon.pc = "exited"

----------------------------------------------------------------------------
(* The processed value of GetJobStats.                                     *)

\* C20: whatever jobsDone and jobsError are, a call of GetJobStats returns
\* processed = 0 and a nil error: the counters incrementJobsProcessed writes
\* are not read.
C20_ProcessedIsZero ==
  /\ GetJobStatsResult(gcpPrintersByGCPID, jobsDone, jobsError).processed = 0
  /\ stats.called =>
       /\ stats.result.processed = 0
       /\ stats.result.err = "nil"

\* GetJobStats was called when one job had been counted as done, and
\* returned processed = 0.
C20_Witness ==
  /\ stats.called
  /\ stats.jobsDone = 1
  /\ stats.result.processed = 0

====
